---- MODULE Spec2Model ----
(***************************************************************************)
(* The credential-and-session lifecycle of the login/signup server:        *)
(* register, login, profile (behind authenticateToken) and logout, over a  *)
(* user store and signed, expiring session tokens.  Every handler is       *)
(* an async function: it runs atomically from one await to the next, and   *)
(* the handlers of different requests interleave at their awaits.          *)
(***************************************************************************)
EXTENDS Integers, Sequences, FiniteSets, TLC

\* ------------------------------------------------------------------ bounds
\* Number of requests the server receives in one behaviour.
MaxRequests == 3
\* Number of requests whose handlers or responses are held at the same time.
MaxInFlight == 2
\* Number of storage failures in one behaviour.
MaxFailures == 1
\* Number of times the clock advances in one behaviour.
MaxTicks == 2
\* Number of user records deleted from outside in one behaviour.
MaxDeletes == 1

\* --------------------------------------------------------- configuration
\* lib/jwt: const JWT_SECRET = process.env.JWT_SECRET || "your-secret-key-..."
JWT_SECRET == "your-secret-key-change-in-production"
\* lib/jwt: const JWT_EXPIRE = process.env.JWT_EXPIRE || "7d"; the clock counts days.
JWT_EXPIRE == 7
\* The values process.env.JWT_EXPIRE takes: unset (the default applies), or a
\* text that is no timespan.
EnvJwtExpire == {"7d", "soon"}

\* The timespan the ms package reads in an expiresIn text, in days; none when
\* the text is no timespan.
Timespan(s) == IF s = "7d" THEN {JWT_EXPIRE} ELSE {}

\* A signing key that is not the process's.
OtherSecret == "attacker-key"

Reqs == 1..MaxInFlight

\* ------------------------------------------------------------ user model
\* ObjectId.toString(): the hexadecimal text of an id.
IdStrings == <<"oid1", "oid2", "oid3", "oid4", "oid5">>

ObjectIdToString(id) == IdStrings[id]

\* Mongoose casts the text back to an ObjectId (findById); {} is a CastError.
CastObjectId(s) == {i \in DOMAIN IdStrings : IdStrings[i] = s}

\* The schema's email setters (trim, lowercase), on the addresses used here.
NormalizeEmail(e) ==
  CASE e = "A@x.io" -> "a@x.io"
    [] e = " b@x.io" -> "b@x.io"
    [] OTHER -> e

\* The schema's email pattern, on the addresses used here.
EmailShapeOk(e) == e \in {"a@x.io", "b@x.io"}

\* bcrypt: a one-way digest of the plaintext; never the plaintext itself.
BcryptHash(plain) == <<"$2a$10$", plain>>

\* user.comparePassword(candidate): re-hash the candidate and compare.
ComparePassword(u, candidate) == BcryptHash(candidate) = u.password

\* The messages of a mongoose ValidationError, one per violated field.
ValidationErrors(email, password, name) ==
     (IF EmailShapeOk(email) THEN {} ELSE {"Please enter a valid email"})
  \cup (IF Len(password) >= 6 THEN {} ELSE {"Password must be at least 6 characters"})
  \cup (IF Len(name) >= 2 THEN {} ELSE {"Name must be at least 2 characters"})

\* ---------------------------------------------------------------- errors
NoError == [name |-> "", messages |-> {}]
StorageUnavailable == [name |-> "MongoNetworkError", messages |-> {}]
DuplicateKey == [name |-> "MongoServerError", messages |-> {"E11000 duplicate key"}]
ValidationError(msgs) == [name |-> "ValidationError", messages |-> msgs]
InvalidTokenError == [name |-> "Error", messages |-> {"Invalid token"}]
\* What jwt.sign throws for an expiresIn that is no timespan.
SignError == [name |-> "Error", messages |-> {"expiresIn should be a timespan"}]

\* ---------------------------------------------------------------- tokens
\* A segment of an Authorization header (the header split at " "): a word
\* such as "Bearer", the empty string between two spaces, text that is no
\* JWT, or a JWT.  Every segment has a token's fields, so any of them can be
\* handed to verifyToken.
Segment(kind) ==
  [kind |-> kind, userId |-> "", email |-> "", name |-> "", iat |-> 0, exp |-> 0,
   sig |-> <<>>]

Bearer == Segment("word")
EmptySegment == Segment("empty")
Undefined == Segment("undefined")
Junk == Segment("junk")

\* HMAC of the header and payload under a key.
Hmac(key, t) == <<key, t.userId, t.email, t.name, t.iat, t.exp>>

\* jwt.sign(payload, secret, {expiresIn}) at time t.
JwtSign(payload, secret, expiresIn, t) ==
  LET body == [kind |-> "jwt", userId |-> payload.userId, email |-> payload.email,
               name |-> payload.name, iat |-> t, exp |-> t + expiresIn, sig |-> <<>>]
  IN  [body EXCEPT !.sig = Hmac(secret, body)]

\* jwt.verify(token, secret) at time t: the structure, then the signature,
\* then the expiry (expired when the clock has reached exp).
JwtVerify(token, secret, t) ==
  IF token.kind # "jwt"
    THEN [ok |-> FALSE, error |-> "JsonWebTokenError", payload |-> {}]
  ELSE IF token.sig # Hmac(secret, token)
    THEN [ok |-> FALSE, error |-> "JsonWebTokenError", payload |-> {}]
  ELSE IF t >= token.exp
    THEN [ok |-> FALSE, error |-> "TokenExpiredError", payload |-> {}]
  ELSE [ok |-> TRUE, error |-> "",
        payload |-> {[userId |-> token.userId, email |-> token.email,
                      name |-> token.name, iat |-> token.iat, exp |-> token.exp]}]

\* Faulty variant: the email and name claims are exchanged.
GenerateTokenSwapped(user, t) ==
  LET payload == [userId |-> ObjectIdToString(user.id), email |-> user.name,
                  name |-> user.email]
  IN  JwtSign(payload, JWT_SECRET, JWT_EXPIRE, t)

\* generateToken(user) at time t.
GenerateToken(user, t) ==
  LET payload == [userId |-> ObjectIdToString(user.id), email |-> user.email,
                  name |-> user.name]
  IN  JwtSign(payload, JWT_SECRET, JWT_EXPIRE, t)

\* Faulty variant: jwt.verify is called with ignoreExpiration.
VerifyTokenIgnoreExpiration(token, t) ==
  LET r == JwtVerify(token, JWT_SECRET, token.iat)
  IN  IF r.ok THEN [ok |-> TRUE, claims |-> r.payload, error |-> NoError]
      ELSE [ok |-> FALSE, claims |-> {}, error |-> InvalidTokenError]

\* Faulty variant: the token is decoded (jwt.decode), its signature not checked.
VerifyTokenDecodeOnly(token, t) ==
  IF token.kind = "jwt" /\ t < token.exp
    THEN [ok |-> TRUE,
          claims |-> {[userId |-> token.userId, email |-> token.email,
                       name |-> token.name, iat |-> token.iat, exp |-> token.exp]},
          error |-> NoError]
    ELSE [ok |-> FALSE, claims |-> {}, error |-> InvalidTokenError]

\* The error verifyToken throws when jwt.verify threw e.
VerifyTokenError(e) == InvalidTokenError

\* verifyToken(token) at time t: the decoded payload, or Error("Invalid token")
\* whatever jwt.verify threw.
VerifyToken(token, t) ==
  LET r == JwtVerify(token, JWT_SECRET, t)
  IN  IF r.ok THEN [ok |-> TRUE, claims |-> r.payload, error |-> NoError]
      ELSE [ok |-> FALSE, claims |-> {}, error |-> VerifyTokenError(r.error)]

\* The three claims of a decoded payload.
Claims(p) == [userId |-> p.userId, email |-> p.email, name |-> p.name]

\* ------------------------------------------------------------- responses
\* res.status(status).json({success, message, token?, user?, errors?}); an
\* absent field is the empty set.
Response(status, success, message, token, user, errors) ==
  [status |-> status, success |-> success, message |-> message, token |-> token,
   user |-> user, errors |-> errors]

Plain(status, success, message) == Response(status, success, message, {}, {}, {})

\* Faulty variant: the whole document is put in the response.
PublicUserWhole(u) == u

PublicUser(u) == [id |-> u.id, email |-> u.email, name |-> u.name]

\* Faulty variant: the name field is filled from the email.
ProfileUserMixed(u) ==
  [id |-> u.id, email |-> u.email, name |-> u.email, createdAt |-> u.createdAt]

ProfileUser(u) ==
  [id |-> u.id, email |-> u.email, name |-> u.name, createdAt |-> u.createdAt]

InternalServerError == Plain(500, FALSE, "Internal server error")

\* ---------------------------------------------------------- middleware
NoHeader == <<>>

\* const token = authHeader && authHeader.split(" ")[1]
ExtractToken(header) ==
  IF header = NoHeader THEN Undefined
  ELSE IF Len(header) >= 2 THEN header[2] ELSE Undefined

\* !token: undefined or the empty string.
Falsy(token) == token.kind \in {"undefined", "empty"}

AccessTokenRequired == Plain(401, FALSE, "Access token required")
InvalidOrExpiredToken == Plain(403, FALSE, "Invalid or expired token")

\* Faulty variant: the catch block also calls next().
AuthenticateTokenNextInCatch(header, t) ==
  LET token == ExtractToken(header) IN
  IF Falsy(token)
    THEN [resp |-> {AccessTokenRequired}, user |-> {}, verify |-> "none", next |-> FALSE]
  ELSE LET v == VerifyToken(token, t) IN
    [resp |-> {}, user |-> v.claims, verify |-> IF v.ok THEN "ok" ELSE "fail",
     next |-> TRUE]

\* Faulty variant: no check that a token is present before verifyToken.
AuthenticateTokenNoPresenceCheck(header, t) ==
  LET v == VerifyToken(ExtractToken(header), t) IN
  IF v.ok
    THEN [resp |-> {}, user |-> v.claims, verify |-> "ok", next |-> TRUE]
    ELSE [resp |-> {InvalidOrExpiredToken}, user |-> {}, verify |-> "fail",
          next |-> FALSE]

\* authenticateToken(req, res, next) at time t: the response it sends (if
\* any), req.user, whether it called verifyToken and with what outcome, and
\* whether it called next().
AuthenticateToken(header, t) ==
  LET token == ExtractToken(header) IN
  IF Falsy(token)
    THEN [resp |-> {AccessTokenRequired}, user |-> {}, verify |-> "none", next |-> FALSE]
  ELSE LET v == VerifyToken(token, t) IN
    IF v.ok
      THEN [resp |-> {}, user |-> v.claims, verify |-> "ok", next |-> TRUE]
      ELSE [resp |-> {InvalidOrExpiredToken}, user |-> {}, verify |-> "fail",
            next |-> FALSE]

\* ------------------------------------------------------------ user store
\* new User({email, password, name}): the id is assigned at construction and
\* the email setters run; the password is still the plaintext.
NewUser(id, email, password, name) ==
  [id |-> id, email |-> NormalizeEmail(email), name |-> name, password |-> password,
   createdAt |-> 0]

\* The pre-save hook and the timestamp: what user.save() writes at time t.
Persisted(d, t) == [d EXCEPT !.password = BcryptHash(d.password), !.createdAt = t]

\* Faulty variant: the filter names no field of the schema and matches any
\* user.
FindOneAnyUser(us, email) == IF us = {} THEN {} ELSE {CHOOSE u \in us : TRUE}

\* User.findOne({email}).exec(): the filter is cast by the schema's setters.
FindOne(us, email) == {u \in us : u.email = NormalizeEmail(email)}

\* User.findById(userId).select("-password").exec()
FindById(us, userId) ==
  {[id |-> u.id, email |-> u.email, name |-> u.name, createdAt |-> u.createdAt] :
     u \in {x \in us : x.id \in CastObjectId(userId)}}

\* Faulty variant: the collection has no unique index on email.
StoreInsertNoIndex(us, d) == [ok |-> TRUE, users |-> us \cup {d}, error |-> NoError]

\* The insert of user.save() into a collection with a unique index on email.
StoreInsert(us, d) ==
  IF \E u \in us : u.email = d.email
    THEN [ok |-> FALSE, users |-> us, error |-> DuplicateKey]
    ELSE [ok |-> TRUE, users |-> us \cup {d}, error |-> NoError]

\* ----------------------------------------------------- handlers' outcomes
\* Faulty variant: the existence check is skipped.
RegisterExistingSkipped(existingUser) == FALSE

\* register: if (existingUser)
RegisterExisting(existingUser) == existingUser # {}

\* register: if (!email || !password || !name)
RegisterMissing(email, password, name) == email = "" \/ password = "" \/ name = ""

RegisterRequired == Plain(400, FALSE, "Email, password, and name are required")
UserExists == Plain(400, FALSE, "User with this email already exists")

RegisterCreated(token, u) ==
  Response(201, TRUE, "User registered successfully", {token}, {PublicUser(u)}, {})

\* Faulty variant: only the first validation message is reported.
RegisterCatchFirstMessage(error) ==
  IF error.name = "ValidationError"
    THEN Response(400, FALSE, "Validation failed", {}, {},
                  {CHOOSE m \in error.messages : TRUE})
    ELSE InternalServerError

\* register's catch block.
RegisterCatch(error) ==
  IF error.name = "ValidationError"
    THEN Response(400, FALSE, "Validation failed", {}, {}, error.messages)
    ELSE InternalServerError

\* login: if (!email || !password)
LoginMissing(email, password) == email = "" \/ password = ""

LoginRequired == Plain(400, FALSE, "Email and password are required")
LoginNoUser == Plain(400, FALSE, "Invalid email or password")
\* Faulty variant: a wrong password gets a message of its own.
LoginBadPasswordTold == Plain(400, FALSE, "Incorrect password")

LoginBadPassword == Plain(400, FALSE, "Invalid email or password")

LoginOk(token, u) == Response(200, TRUE, "Login successful", {token}, {PublicUser(u)}, {})

UserNotFound == Plain(404, FALSE, "User not found")
ProfileOk(u) == Response(200, TRUE, "", {}, {ProfileUser(u)}, {})
LogoutOk == Plain(200, TRUE, "Logout successful")

\* ------------------------------------------------------------------ state
VARIABLES
  users,    \* the users collection
  nextId,   \* the next ObjectId
  now,      \* the clock, in days
  failures, \* the number of storage failures so far
  handled,  \* the number of requests received so far
  issued,   \* the tokens the server has handed out
  ticks,    \* the number of times the clock has advanced
  req,      \* the requests: each one's inputs, position and response
  deleted,  \* records removed from the collection by another client of the store
  jwtExpire \* lib/jwt's JWT_EXPIRE, read from the environment when the process starts

vars == <<users, nextId, now, failures, handled, issued, req, deleted, ticks, jwtExpire>>

\* A request not yet received.  user is req.user; doc is the handler's local
\* user document; resp holds what was sent and sends counts the calls of
\* res.json.  at, seen, verify, next, created and err record what happened: when the middleware ran, the ids that held
\* the request's email or token when it arrived, verifyToken's outcome, whether the
\* route handler was invoked, the ids the request inserted, and the error
\* its catch block caught.
IdleReq ==
  [op |-> "idle", pc |-> "idle", email |-> "", password |-> "", name |-> "",
   header |-> NoHeader, user |-> {}, doc |-> {}, resp |-> {}, at |-> 0, seen |-> {},
   sends |-> 0, verify |-> "none", next |-> FALSE, created |-> {}, err |-> NoError]

\* The state after construction, but for the environment's JWT_EXPIRE.
Started ==
  /\ users = {}
  /\ nextId = 1
  /\ now = 0
  /\ failures = 0
  /\ handled = 0
  /\ ticks = 0
  /\ issued = {}
  /\ req = [r \in Reqs |-> IdleReq]
  /\ deleted = {}

\* The process started with JWT_EXPIRE unset.
Init == Started /\ jwtExpire = "7d"

\* The process started with any JWT_EXPIRE.
InitAnyEnv == Started /\ jwtExpire \in EnvJwtExpire

\* generateToken throws: jwt.sign rejects the process's expiresIn.
GenerateTokenThrows == Timespan(jwtExpire) = {}

\* A request takes the first slot that holds no running handler; the response
\* that slot held has been delivered.
Free(r) == req[r].pc \in {"idle", "done"}

CanArrive(r) ==
  /\ handled < MaxRequests
  /\ Free(r)
  /\ \A k \in 1..(r - 1) : ~Free(k)

\* A storage call returns (up) or throws StorageUnavailable.
Storage(up) ==
  /\ ~up => failures < MaxFailures
  /\ failures' = IF up THEN failures ELSE failures + 1

Arrival(r, op) == [IdleReq EXCEPT !.op = op, !.pc = "connect"]

\* The ids of the records that hold an email address.
IdsWithEmail(email) == {u.id : u \in {x \in users : x.email = NormalizeEmail(email)}}

\* The handler sends a response and returns.
Done(q, response) ==
  [q EXCEPT !.pc = "done", !.resp = q.resp \cup {response}, !.sends = q.sends + 1]

\* Faulty variant: the catch block logs the error and sends nothing.
ThrewUnanswered(q, error, response) == [q EXCEPT !.pc = "done", !.err = error]

\* A step of the handler threw: its catch block sends a response.
Threw(q, error, response) ==
  [q EXCEPT !.pc = "done", !.resp = q.resp \cup {response}, !.sends = q.sends + 1,
            !.err = error]

\* ------------------------------------------------------------ the clients
\* The tokens the clients hold.
Known == issued

\* A token re-signed with another key, and one whose expiry was edited.
Resigned(t) == [t EXCEPT !.sig = Hmac(OtherSecret, t)]
Extended(t) == [t EXCEPT !.exp = t.exp + JWT_EXPIRE]

Crafted ==
  JwtSign([userId |-> "oid1", email |-> "a@x.io", name |-> "Jo"], OtherSecret,
          JWT_EXPIRE, now)

Presentable ==
  Known \cup {Resigned(t) : t \in Known} \cup {Extended(t) : t \in Known}
        \cup {Junk, Crafted}

Headers ==
  {NoHeader, <<Bearer>>}
    \cup {<<Bearer, t>> : t \in Presentable}
    \cup {<<Bearer, EmptySegment, t>> : t \in Known}
    \cup {<<t>> : t \in Known}

\* logout does not read the header.
LogoutHeaders == {NoHeader} \cup {<<Bearer, t>> : t \in Known}

RegisterBodies ==
  { [email |-> "a@x.io", password |-> "secret1", name |-> "Jo"],
    [email |-> "A@x.io", password |-> "secret2", name |-> "Al"],
    [email |-> "b@x.io", password |-> "secret2", name |-> "Al"],
    [email |-> "", password |-> "secret1", name |-> "Jo"],
    [email |-> "a@x.io", password |-> "", name |-> "Jo"],
    [email |-> "a@x.io", password |-> "secret1", name |-> ""],
    [email |-> "b@x.io", password |-> "short", name |-> "Al"],
    [email |-> "bad", password |-> "short", name |-> "J"] }

LoginBodies ==
  { [email |-> "a@x.io", password |-> "secret1"],
    [email |-> "a@x.io", password |-> "secret2"],
    [email |-> "A@x.io", password |-> "secret1"],
    [email |-> "b@x.io", password |-> "secret2"],
    [email |-> "", password |-> "secret1"],
    [email |-> "a@x.io", password |-> ""] }

\* --------------------------------------------------------------- register
Register(r, body) ==
  /\ CanArrive(r)
  /\ handled' = handled + 1
  /\ req' = [req EXCEPT ![r] =
       [Arrival(r, "register") EXCEPT !.email = body.email,
          !.password = body.password, !.name = body.name,
          !.seen = IdsWithEmail(body.email)]]
  /\ UNCHANGED <<users, nextId, now, failures, issued, deleted, ticks, jwtExpire>>

\* await connectDB() returns or throws; then the required-fields check.
RegisterConnected(r, up) ==
  LET q == req[r] IN
  /\ q.op = "register" /\ q.pc = "connect"
  /\ req' = [req EXCEPT ![r] =
       IF ~up THEN Threw(q, StorageUnavailable, RegisterCatch(StorageUnavailable))
       ELSE IF RegisterMissing(q.email, q.password, q.name)
         THEN Done(q, RegisterRequired)
       ELSE [q EXCEPT !.pc = "findOne"]]
  /\ Storage(up)
  /\ UNCHANGED <<users, nextId, now, handled, issued, deleted, ticks, jwtExpire>>

\* await User.findOne({email}).exec(); then the duplicate check and new User.
RegisterFindOne(r, up) ==
  LET q == req[r]
      existingUser == FindOne(users, q.email)
  IN
  /\ q.op = "register" /\ q.pc = "findOne"
  /\ req' = [req EXCEPT ![r] =
       IF ~up THEN Threw(q, StorageUnavailable, RegisterCatch(StorageUnavailable))
       ELSE IF RegisterExisting(existingUser) THEN Done(q, UserExists)
       ELSE [q EXCEPT !.pc = "save",
                      !.doc = {NewUser(nextId, q.email, q.password, q.name)}]]
  /\ nextId' = IF up /\ ~RegisterExisting(existingUser) THEN nextId + 1 ELSE nextId
  /\ Storage(up)
  /\ UNCHANGED <<users, now, handled, issued, deleted, ticks, jwtExpire>>

\* await user.save(): validation, the pre-save hash, the insert; then
\* generateToken and the 201 response.
RegisterSave(r, up) ==
  LET q == req[r]
      d == CHOOSE x \in q.doc : TRUE
      msgs == ValidationErrors(d.email, d.password, d.name)
      ins == StoreInsert(users, Persisted(d, now))
      user == Persisted(d, now)
  IN
  /\ q.op = "register" /\ q.pc = "save"
  /\ IF msgs # {}
       THEN /\ req' = [req EXCEPT ![r] =
                 Threw(q, ValidationError(msgs), RegisterCatch(ValidationError(msgs)))]
            /\ users' = users /\ issued' = issued
     ELSE IF ~up
       THEN /\ req' = [req EXCEPT ![r] =
                 Threw(q, StorageUnavailable, RegisterCatch(StorageUnavailable))]
            /\ users' = users /\ issued' = issued
     ELSE IF ~ins.ok
       THEN /\ req' = [req EXCEPT ![r] = Threw(q, ins.error, RegisterCatch(ins.error))]
            /\ users' = ins.users /\ issued' = issued
     ELSE IF GenerateTokenThrows
       THEN /\ req' = [req EXCEPT ![r] =
                 Threw([q EXCEPT !.doc = {user}, !.created = {user.id}], SignError,
                       RegisterCatch(SignError))]
            /\ users' = ins.users /\ issued' = issued
     ELSE /\ req' = [req EXCEPT ![r] =
               Done([q EXCEPT !.doc = {user}, !.created = {user.id}],
                    RegisterCreated(GenerateToken(user, now), user))]
          /\ users' = ins.users
          /\ issued' = issued \cup {GenerateToken(user, now)}
  /\ IF msgs # {} THEN failures' = failures ELSE Storage(up)
  /\ UNCHANGED <<nextId, now, handled, deleted, ticks, jwtExpire>>

\* ------------------------------------------------------------------ login
Login(r, body) ==
  /\ CanArrive(r)
  /\ handled' = handled + 1
  /\ req' = [req EXCEPT ![r] =
       [Arrival(r, "login") EXCEPT !.email = body.email, !.password = body.password,
          !.seen = IdsWithEmail(body.email)]]
  /\ UNCHANGED <<users, nextId, now, failures, issued, deleted, ticks, jwtExpire>>

\* await connectDB() returns or throws; then the required-fields check.
LoginConnected(r, up) ==
  LET q == req[r] IN
  /\ q.op = "login" /\ q.pc = "connect"
  /\ req' = [req EXCEPT ![r] =
       IF ~up THEN Threw(q, StorageUnavailable, InternalServerError)
       ELSE IF LoginMissing(q.email, q.password) THEN Done(q, LoginRequired)
       ELSE [q EXCEPT !.pc = "findOne"]]
  /\ Storage(up)
  /\ UNCHANGED <<users, nextId, now, handled, issued, deleted, ticks, jwtExpire>>

\* await User.findOne({email}).exec(); then the not-found check.
LoginFindOne(r, up) ==
  LET q == req[r]
      user == FindOne(users, q.email)
  IN
  /\ q.op = "login" /\ q.pc = "findOne"
  /\ req' = [req EXCEPT ![r] =
       IF ~up THEN Threw(q, StorageUnavailable, InternalServerError)
       ELSE IF user = {} THEN Done(q, LoginNoUser)
       ELSE [q EXCEPT !.pc = "compare", !.doc = user]]
  /\ Storage(up)
  /\ UNCHANGED <<users, nextId, now, handled, issued, deleted, ticks, jwtExpire>>

\* await user.comparePassword(password); then generateToken and the response.
LoginCompare(r, up) ==
  LET q == req[r]
      user == CHOOSE x \in q.doc : TRUE
  IN
  /\ q.op = "login" /\ q.pc = "compare"
  /\ req' = [req EXCEPT ![r] =
       IF ~up THEN Threw(q, StorageUnavailable, InternalServerError)
       ELSE IF ~ComparePassword(user, q.password) THEN Done(q, LoginBadPassword)
       ELSE IF GenerateTokenThrows THEN Threw(q, SignError, InternalServerError)
       ELSE Done(q, LoginOk(GenerateToken(user, now), user))]
  /\ Storage(up)
  /\ issued' = IF up /\ ComparePassword(user, q.password) /\ ~GenerateTokenThrows
                  THEN issued \cup {GenerateToken(user, now)} ELSE issued
  /\ UNCHANGED <<users, nextId, now, handled, deleted, ticks, jwtExpire>>

\* ---------------------------------------------------------------- profile
\* app.get("/api/auth/profile", authenticateToken, getProfile): the middleware
\* runs when the request arrives; getProfile runs only when it calls next().
Profile(r, header) ==
  LET a == AuthenticateToken(header, now)
      q == [Arrival(r, "profile") EXCEPT !.header = header, !.at = now, !.user = a.user,
              !.verify = a.verify, !.next = a.next, !.resp = a.resp,
              !.sends = Cardinality(a.resp),
              !.seen = {u.id : u \in {x \in users :
                          ObjectIdToString(x.id) = ExtractToken(header).userId}}]
  IN
  /\ CanArrive(r)
  /\ handled' = handled + 1
  /\ req' = [req EXCEPT ![r] =
       IF a.next THEN q ELSE [q EXCEPT !.pc = "done"]]
  /\ UNCHANGED <<users, nextId, now, failures, issued, deleted, ticks, jwtExpire>>

\* getProfile: await connectDB() returns or throws.
ProfileConnected(r, up) ==
  LET q == req[r] IN
  /\ q.op = "profile" /\ q.pc = "connect"
  /\ req' = [req EXCEPT ![r] =
       IF ~up THEN Threw(q, StorageUnavailable, InternalServerError)
       ELSE [q EXCEPT !.pc = "findById"]]
  /\ Storage(up)
  /\ UNCHANGED <<users, nextId, now, handled, issued, deleted, ticks, jwtExpire>>

\* getProfile: await User.findById(req.user?.userId)...; then the response.
ProfileFindById(r, up) ==
  LET q == req[r]
      userId == {c.userId : c \in q.user}
      user == UNION {FindById(users, id) : id \in userId}
  IN
  /\ q.op = "profile" /\ q.pc = "findById"
  /\ req' = [req EXCEPT ![r] =
       IF ~up THEN Threw(q, StorageUnavailable, InternalServerError)
       ELSE IF user = {} THEN Done(q, UserNotFound)
       ELSE Done([q EXCEPT !.doc = user], ProfileOk(CHOOSE u \in user : TRUE))]
  /\ Storage(up)
  /\ UNCHANGED <<users, nextId, now, handled, issued, deleted, ticks, jwtExpire>>

\* ----------------------------------------------------------------- logout
\* Faulty variant: logout sits behind authenticateToken.
LogoutBehindMiddleware(r, header) ==
  LET a == AuthenticateToken(header, now) IN
  /\ CanArrive(r)
  /\ handled' = handled + 1
  /\ req' = [req EXCEPT ![r] =
       Done([Arrival(r, "logout") EXCEPT !.header = header],
            IF a.next THEN LogoutOk ELSE CHOOSE x \in a.resp : TRUE)]
  /\ UNCHANGED <<users, nextId, now, failures, issued, deleted, ticks, jwtExpire>>

Logout(r, header) ==
  /\ CanArrive(r)
  /\ handled' = handled + 1
  /\ req' = [req EXCEPT ![r] =
       Done([Arrival(r, "logout") EXCEPT !.header = header], LogoutOk)]
  /\ UNCHANGED <<users, nextId, now, failures, issued, deleted, ticks, jwtExpire>>

\* ------------------------------------------------------------ environment
\* Time passes: first up to the eve of the expiry of a token issued at the
\* start, then day by day.
Tick ==
  /\ ticks < MaxTicks
  /\ ticks' = ticks + 1
  /\ now' = now + (IF ticks = 0 THEN JWT_EXPIRE - 1 ELSE 1)
  /\ UNCHANGED <<users, nextId, failures, handled, issued, req, deleted, jwtExpire>>

\* Another client of the database removes a user record.
DeleteUser(u) ==
  /\ u \in users
  /\ Cardinality(deleted) < MaxDeletes
  /\ users' = users \ {u}
  /\ deleted' = deleted \cup {u}
  /\ UNCHANGED <<nextId, now, failures, handled, issued, req, ticks, jwtExpire>>

\* ---------------------------------------------------------- specifications
Next ==
  \/ \E r \in Reqs, body \in RegisterBodies : Register(r, body)
  \/ \E r \in Reqs, up \in BOOLEAN : RegisterConnected(r, up)
  \/ \E r \in Reqs, up \in BOOLEAN : RegisterFindOne(r, up)
  \/ \E r \in Reqs, up \in BOOLEAN : RegisterSave(r, up)
  \/ \E r \in Reqs, body \in LoginBodies : Login(r, body)
  \/ \E r \in Reqs, up \in BOOLEAN : LoginConnected(r, up)
  \/ \E r \in Reqs, up \in BOOLEAN : LoginFindOne(r, up)
  \/ \E r \in Reqs, up \in BOOLEAN : LoginCompare(r, up)
  \/ \E r \in Reqs, header \in Headers : Profile(r, header)
  \/ \E r \in Reqs, up \in BOOLEAN : ProfileConnected(r, up)
  \/ \E r \in Reqs, up \in BOOLEAN : ProfileFindById(r, up)
  \/ \E r \in Reqs, header \in LogoutHeaders : Logout(r, header)
  \/ Tick

\* The server and its clients; nothing in the repository deletes a user.
Spec == Init /\ [][Next]_vars

\* The server started with whatever JWT_EXPIRE the environment holds.
SpecAnyEnv == InitAnyEnv /\ [][Next]_vars

NextWithDelete == Next \/ \E u \in users : DeleteUser(u)

\* The same, with the users collection also open to deletions from outside.
SpecWithDelete == Init /\ [][NextWithDelete]_vars

\* ------------------------------------------------------------ properties
Status(q) == {x.status : x \in q.resp}

\* getProfile ran for the request: it is at one of getProfile's awaits, or it
\* sent one of getProfile's responses.
HandlerRan(q) ==
  \/ q.pc \in {"connect", "findById"}
  \/ q.pc = "done" /\ Status(q) \cap {200, 404, 500} # {}

\* The header holds no token: there is no header, or no second segment, or
\* the second segment is empty.
NoTokenSegment(header) ==
  \/ header = NoHeader
  \/ Len(header) < 2
  \/ header[2].kind = "empty"

\* C1: for a profile request that carries a token, getProfile runs only if
\* verifyToken succeeded on the request's token when the middleware ran, and
\* then req.user is what verifyToken returned; if verifyToken failed the
\* response is 403 and getProfile never runs.
C1_HandlerOnlyAfterVerify ==
  \A r \in Reqs :
    LET q == req[r]
        v == VerifyToken(ExtractToken(q.header), q.at)
    IN  (q.op = "profile" /\ ~NoTokenSegment(q.header)) =>
          /\ HandlerRan(q) => (v.ok /\ q.verify = "ok" /\ q.next /\ q.user = v.claims)
          /\ q.next => HandlerRan(q)
          /\ ~v.ok => /\ q.verify = "fail"
                      /\ q.pc = "done"
                      /\ q.resp = {Plain(403, FALSE, "Invalid or expired token")}
                      /\ q.doc = {}

\* A profile request whose token verified and whose handler answered 200.
C1_Witness ==
  \E r \in Reqs :
    /\ req[r].op = "profile" /\ req[r].pc = "done"
    /\ req[r].verify = "ok" /\ req[r].user # {}
    /\ Status(req[r]) = {200}

\* C2: a profile request from which no bearer token can be taken (no
\* Authorization header, or no token segment in it) is answered 401 at once:
\* verifyToken is not called and getProfile does not run.
C2_NoTokenIs401 ==
  \A r \in Reqs :
    LET q == req[r] IN
    (q.op = "profile" /\ NoTokenSegment(q.header)) =>
      /\ q.pc = "done"
      /\ q.resp = {Plain(401, FALSE, "Access token required")}
      /\ q.verify = "none"
      /\ ~q.next /\ ~HandlerRan(q) /\ q.user = {} /\ q.doc = {}

\* A 401 for a header that is present and holds a valid token, but not as
\* its second segment.
C2_Witness ==
  \E r \in Reqs :
    /\ req[r].op = "profile" /\ Status(req[r]) = {401}
    /\ req[r].header # NoHeader
    /\ \E i \in DOMAIN req[r].header : VerifyToken(req[r].header[i], req[r].at).ok

\* The body of a register request passes the required-fields check and the
\* schema's validation.
ValidRegistration(q) ==
  /\ ~RegisterMissing(q.email, q.password, q.name)
  /\ ValidationErrors(NormalizeEmail(q.email), q.password, q.name) = {}

\* C3: whatever the interleaving of register requests, two of them for one
\* email that both pass the existence check before either inserts included,
\* the users collection holds at most one record per email.
C3_OneUserPerEmail ==
  \A u1 \in users : \A u2 \in users : u1.email = u2.email => u1 = u2

\* Two registers for one email both passed the existence check; one was
\* answered 201 and the other was refused by the insert.
C3_Witness ==
  \E r1 \in Reqs : \E r2 \in Reqs :
    /\ r1 # r2
    /\ req[r1].op = "register" /\ req[r2].op = "register"
    /\ NormalizeEmail(req[r1].email) = NormalizeEmail(req[r2].email)
    /\ req[r1].seen = {} /\ req[r2].seen = {}
    /\ Status(req[r1]) = {201}
    /\ req[r2].pc = "done" /\ req[r2].err = DuplicateKey

\* C4: a register with valid fields that no storage error interrupts is
\* answered 201, and has then created exactly one user, the only one with its
\* email, unless its existence check found the email, and then it is answered
\* 400 "User with this email already exists"; a register whose email was in
\* the store when it arrived is answered that 400, creates no user and gets
\* no token.
C4_RegisterOnceThenDuplicate ==
  \A r \in Reqs :
    LET q == req[r]
        mine == {u \in users : u.email = NormalizeEmail(q.email)}
    IN  (q.op = "register" /\ q.pc = "done" /\ ValidRegistration(q)) =>
          /\ Status(q) = {201} =>
               /\ Cardinality(q.created) = 1
               /\ {u.id : u \in mine} = q.created
               /\ \A x \in q.resp : x.token # {}
          /\ Status(q) # {201} => q.created = {}
          /\ q.err = NoError =>
               \/ Status(q) = {201}
               \/ /\ q.resp = {Plain(400, FALSE, "User with this email already exists")}
                  /\ mine # {}
          /\ (q.seen = {} /\ q.err = NoError /\ Status(q) # {201}) =>
               \E u \in mine : u.id \notin q.seen
          /\ (q.seen # {} /\ q.err # StorageUnavailable) =>
               /\ q.resp = {Plain(400, FALSE, "User with this email already exists")}
               /\ q.created = {}
               /\ {u.id : u \in mine} = q.seen

\* A register that arrived after another had created the user with its email
\* (under another spelling of the address) and was answered 400.
C4_Witness ==
  \E r \in Reqs :
    /\ req[r].op = "register" /\ req[r].pc = "done"
    /\ ValidRegistration(req[r])
    /\ req[r].seen # {}
    /\ Status(req[r]) = {400}
    /\ \E u \in users : u.id \in req[r].seen /\ u.name # req[r].name

\* C5: a login with a registered user's email and password, which no storage
\* error interrupts, is answered 200 with that user's public fields and a
\* token whose claims are the user's stored id, email and name; verifyToken
\* on that token returns exactly those claims.
C5_LoginTokenCarriesUser ==
  \A r \in Reqs :
    LET q == req[r]
        mine == {u \in users : u.email = NormalizeEmail(q.email)}
    IN  (q.op = "login" /\ q.pc = "done") =>
          /\ (q.err = NoError /\ \E u \in mine : u.id \in q.seen
                                                /\ u.password = BcryptHash(q.password))
               => Status(q) = {200}
          /\ Status(q) = {200} =>
               \E u \in mine : \E x \in q.resp : \E t \in x.token :
                 /\ u.password = BcryptHash(q.password)
                 /\ x.user = {[id |-> u.id, email |-> u.email, name |-> u.name]}
                 /\ t \in issued
                 /\ VerifyToken(t, t.iat).ok
                 /\ {Claims(p) : p \in VerifyToken(t, t.iat).claims} =
                      {[userId |-> ObjectIdToString(u.id), email |-> u.email,
                        name |-> u.name]}

\* A successful login, under another spelling of the address, while the
\* store holds two users.
C5_Witness ==
  \E r \in Reqs :
    /\ req[r].op = "login" /\ Status(req[r]) = {200}
    /\ req[r].email # NormalizeEmail(req[r].email)
    /\ Cardinality(users) = 2

\* The response of a login that was refused for its credentials.
InvalidCredentials == Plain(400, FALSE, "Invalid email or password")

\* A login, with both fields given and no storage error, for an email the
\* lookup did not find / for an email it found, with another password.
UnknownEmailLogin(q) ==
  /\ q.op = "login" /\ q.pc = "done" /\ q.err = NoError
  /\ ~LoginMissing(q.email, q.password)
  /\ q.doc = {}

WrongPasswordLogin(q) ==
  /\ q.op = "login" /\ q.pc = "done" /\ q.err = NoError
  /\ ~LoginMissing(q.email, q.password)
  /\ \E u \in q.doc : u.password # BcryptHash(q.password)

\* C6: the response to a login for an existing email with a wrong password is
\* the response to a login for an email that is not in the store: 400 with
\* the message "Invalid email or password", and no token or user.
C6_LoginFailuresAlike ==
  /\ \A r \in Reqs :
       (UnknownEmailLogin(req[r]) \/ WrongPasswordLogin(req[r])) =>
          req[r].resp = {InvalidCredentials}
  /\ \A r1 \in Reqs : \A r2 \in Reqs :
       (UnknownEmailLogin(req[r1]) /\ WrongPasswordLogin(req[r2])) =>
          req[r1].resp = req[r2].resp

\* Both refusals side by side.
C6_Witness ==
  \E r1 \in Reqs : \E r2 \in Reqs :
    /\ UnknownEmailLogin(req[r1]) /\ WrongPasswordLogin(req[r2])
    /\ req[r1].seen = {} /\ req[r2].seen # {}

\* The user a token was issued for: the record with the token's userId.
IssuedFor(t) == {u \in users \cup deleted : ObjectIdToString(u.id) = t.userId}

\* verifyToken on an issued token, now, returns the claims it was issued with.
VerifiesAsIssued(t) ==
  LET v == VerifyToken(t, now) IN
  /\ v.ok
  /\ v.error = NoError
  /\ {Claims(p) : p \in v.claims} =
       {[userId |-> ObjectIdToString(u.id), email |-> u.email, name |-> u.name] :
          u \in IssuedFor(t)}
  /\ Cardinality(IssuedFor(t)) = 1

\* C7, as claimed: verify(issue(user)) succeeds with the claims of issuance
\* until the time-to-live has elapsed since issuance, and from then on fails
\* with the TokenExpired error kind.
C7_AsClaimed ==
  \A t \in issued :
    IF now < t.iat + JWT_EXPIRE
      THEN VerifiesAsIssued(t)
      ELSE /\ ~VerifyToken(t, now).ok
           /\ VerifyToken(t, now).error.name = "TokenExpiredError"

\* C7, amended: verify(issue(user)) succeeds with the claims of issuance until
\* the time-to-live has elapsed since issuance, and from then on fails; the
\* error it fails with is Error("Invalid token"), the one every token that
\* does not verify gets: verifyToken has no TokenExpired kind.
C7_VerifyUntilExpiry ==
  \A t \in issued :
    IF now < t.iat + JWT_EXPIRE
      THEN VerifiesAsIssued(t)
      ELSE /\ ~VerifyToken(t, now).ok
           /\ VerifyToken(t, now).claims = {}
           /\ VerifyToken(t, now).error = [name |-> "Error", messages |-> {"Invalid token"}]
           /\ VerifyToken(t, now).error = VerifyToken(Junk, now).error

\* One token that has just reached its expiry beside one, issued a day
\* before, that has not.
C7_Witness ==
  \E t1 \in issued : \E t2 \in issued :
    /\ now = t1.iat + JWT_EXPIRE
    /\ now = t2.iat + 1

\* A token that is no JWT, or whose signature is not the process secret's
\* over its content.
Forged(t) ==
  \/ t.kind # "jwt"
  \/ t.sig # <<JWT_SECRET, t.userId, t.email, t.name, t.iat, t.exp>>

\* C8: a token that is malformed or signed with another secret fails
\* verifyToken with Error("Invalid token"), verifyToken returns no claims for
\* it, and a profile request that carries it is answered 403 without
\* getProfile running.
C8_ForgedTokenRejected ==
  /\ \A t \in Presentable :
       Forged(t) => /\ ~VerifyToken(t, now).ok
                    /\ VerifyToken(t, now).claims = {}
                    /\ VerifyToken(t, now).error =
                         [name |-> "Error", messages |-> {"Invalid token"}]
  /\ \A r \in Reqs :
       LET q == req[r] IN
       (q.op = "profile" /\ ~NoTokenSegment(q.header) /\ Forged(q.header[2])) =>
          /\ q.pc = "done"
          /\ q.resp = {Plain(403, FALSE, "Invalid or expired token")}
          /\ q.user = {} /\ q.doc = {} /\ ~q.next

\* A profile request with a token of a registered user, unexpired, re-signed
\* with another key.
C8_Witness ==
  \E r \in Reqs : \E t \in issued :
    /\ req[r].op = "profile" /\ req[r].pc = "done"
    /\ req[r].header = <<Bearer, [t EXCEPT !.sig = Hmac(OtherSecret, t)]>>
    /\ req[r].at < t.exp
    /\ Status(req[r]) = {403}

\* A profile request that presented a token the server issued, before the
\* token's expiry, and that no storage error interrupted.
ProfileWithIssuedToken(q) ==
  /\ q.op = "profile" /\ q.pc = "done" /\ q.err = NoError
  /\ ~NoTokenSegment(q.header)
  /\ q.header[2] \in issued
  /\ q.at < q.header[2].iat + JWT_EXPIRE

\* C9: a profile request that presents a token returned by a register or a
\* login, before the token's expiry, is answered 200 with the id, email, name
\* and createdAt of the token's user as the store holds them, as long as the
\* record exists, and 404 when no record with the token's userId exists any
\* more.
C9_ProfileOfTokenUser ==
  \A r \in Reqs :
    LET q == req[r] IN
    ProfileWithIssuedToken(q) =>
      LET t == q.header[2]
          rec == {u \in users \cup deleted : ObjectIdToString(u.id) = t.userId}
      IN  /\ Cardinality(rec) = 1
          /\ Status(q) \subseteq {200, 404}
          /\ Status(q) = {200} =>
               q.resp = {Response(200, TRUE, "", {},
                           {[id |-> u.id, email |-> u.email, name |-> u.name,
                             createdAt |-> u.createdAt] : u \in rec}, {})}
          /\ \A u \in rec : t.email = u.email /\ t.name = u.name
          /\ Status(q) = {404} =>
               /\ rec \subseteq deleted
               /\ q.resp = {Plain(404, FALSE, "User not found")}
          /\ rec \subseteq users => Status(q) = {200}
          /\ q.seen = {} => Status(q) = {404}

\* Two profile requests with one unexpired token: 200 before the user's
\* record was deleted, 404 after.
C9_Witness ==
  \E r1 \in Reqs : \E r2 \in Reqs :
    /\ ProfileWithIssuedToken(req[r1]) /\ ProfileWithIssuedToken(req[r2])
    /\ req[r1].header = req[r2].header
    /\ Status(req[r1]) = {200}
    /\ Status(req[r2]) = {404}

\* The step in which slot r receives (and answers) a logout request.
LogoutStep(r) ==
  /\ handled' = handled + 1
  /\ req'[r].op = "logout"
  /\ \A k \in Reqs \ {r} : req'[k] = req[k]

\* C10: logout answers 200 with success whether or not the request carries a
\* token, and changes nothing on the server: the store is as it was and every
\* token that verified before the logout verifies after it.
C10_LogoutChangesNothing ==
  [][\A r \in Reqs :
       LogoutStep(r) =>
         /\ req'[r].pc = "done"
         /\ req'[r].resp = {Plain(200, TRUE, "Logout successful")}
         /\ users' = users /\ nextId' = nextId /\ issued' = issued
         /\ \A t \in issued : VerifyToken(t, now).ok => VerifyToken(t, now').ok]_vars

\* A logout that carried a token, answered 200, beside a profile request
\* with the same token answered 200; the token still verifies.
C10_Witness ==
  \E r1 \in Reqs : \E r2 \in Reqs :
    /\ req[r1].op = "logout" /\ Status(req[r1]) = {200}
    /\ req[r1].header # NoHeader
    /\ req[r2].op = "profile" /\ Status(req[r2]) = {200}
    /\ req[r2].header = req[r1].header
    /\ VerifyToken(req[r1].header[2], now).ok

\* C11: register is all-or-nothing: a register request that ended with any
\* response other than 201 (a 400 or a 500, the 500 after a failure that
\* follows the save included) added no user record to the store.
C11_RegisterAllOrNothing ==
  \A r \in Reqs :
    LET q == req[r] IN
    (q.op = "register" /\ q.pc = "done" /\ Status(q) # {201}) =>
      /\ q.created = {}
      /\ \A u \in users : u.id \notin q.created

\* A register request was rejected because a user with its email exists: its
\* existence check found the user, or the insert reported the duplicate.
RejectedAsDuplicate(q) ==
  /\ q.op = "register" /\ q.pc = "done"
  /\ \/ q.err = DuplicateKey
     \/ /\ q.err = NoError /\ q.doc = {}
        /\ ~RegisterMissing(q.email, q.password, q.name)

\* C12: a register request rejected because a user with the same email
\* exists, whether its existence check found the user or the store reported
\* the duplicate at insert time in a race of two registrations, is answered
\* 400 "User with this email already exists", never 500.
C12_DuplicateEmailIs400 ==
  \A r \in Reqs :
    RejectedAsDuplicate(req[r]) =>
      req[r].resp = {Plain(400, FALSE, "User with this email already exists")}

\* The handler of request r resumes after the await it is at.
Resume(r, up) ==
  \/ RegisterConnected(r, up) \/ RegisterFindOne(r, up) \/ RegisterSave(r, up)
  \/ LoginConnected(r, up) \/ LoginFindOne(r, up) \/ LoginCompare(r, up)
  \/ ProfileConnected(r, up) \/ ProfileFindById(r, up)

\* The storage and unexpected failures a handler's step can raise.
Failures == {StorageUnavailable, DuplicateKey, SignError}

\* C13: every request to register, login, profile or logout ends with exactly
\* one response: a handler that is still running has sent nothing and can
\* run on, one that has ended has called res.json once, and a storage or
\* unexpected failure at any step (connecting, lookup, save, password
\* comparison, token issuance) ended its request with the single response
\* 500 "Internal server error".
C13_ExactlyOneResponse ==
  \A r \in Reqs :
    LET q == req[r] IN
    /\ q.pc = "done" => (q.sends = 1 /\ Cardinality(q.resp) = 1)
    /\ q.pc # "done" => (q.sends = 0 /\ q.resp = {} /\ q.err = NoError)
    /\ q.pc \notin {"idle", "done"} => ENABLED Resume(r, TRUE)
    /\ q.err \in Failures =>
         /\ q.pc = "done"
         /\ q.resp = {Plain(500, FALSE, "Internal server error")}
    /\ q.err # NoError => (q.err \in Failures \/ q.err.name = "ValidationError")

\* A register whose token issuance threw after the save and a login whose
\* storage call threw, each answered once, with 500.
C13_Witness ==
  \E r1 \in Reqs : \E r2 \in Reqs :
    /\ req[r1].op = "register" /\ req[r1].err = SignError /\ req[r1].created # {}
    /\ req[r2].op = "login" /\ req[r2].err = StorageUnavailable
    /\ req[r1].sends = 1 /\ req[r2].sends = 1
    /\ Status(req[r1]) = {500} /\ Status(req[r2]) = {500}

\* The fields of a register request that break the schema's constraints.
ViolatedFields(q) ==
  {f \in {"email", "password", "name"} :
     \/ f = "email" /\ NormalizeEmail(q.email) \notin {"a@x.io", "b@x.io"}
     \/ f = "password" /\ Len(q.password) < 6
     \/ f = "name" /\ Len(q.name) < 2}

\* C14: a register request that violates a field constraint creates no user
\* and gets no token, and, unless a storage call threw, is answered 400: a
\* request with email, password or name missing or empty with "Email,
\* password, and name are required"; one whose record the store rejected with
\* a ValidationError (email shape, name shorter than 2, password shorter than
\* 6) with "Validation failed" and one message per violated field.
C14_InvalidFieldsAre400 ==
  /\ \A u \in users : u.email \in {"a@x.io", "b@x.io"} /\ Len(u.name) >= 2
  /\ \A r \in Reqs :
       LET q == req[r] IN
       (q.op = "register" /\ q.pc = "done" /\ ViolatedFields(q) # {}) =>
         /\ Status(q) # {201}
         /\ q.created = {}
         /\ \A x \in q.resp : x.token = {} /\ x.user = {}
         /\ q.err # StorageUnavailable => Status(q) = {400}
         /\ (q.email = "" \/ q.password = "" \/ q.name = "") =>
              /\ q.doc = {}
              /\ q.err = NoError =>
                   q.resp = {Plain(400, FALSE, "Email, password, and name are required")}
         /\ q.doc # {} =>
              /\ q.err.name = "ValidationError"
              /\ \A x \in q.resp :
                   /\ x.status = 400 /\ x.message = "Validation failed"
                   /\ Cardinality(x.errors) = Cardinality(ViolatedFields(q))

\* A register refused by validation for one field beside one refused for
\* three, and the store holds a user.
C14_Witness ==
  \E r1 \in Reqs : \E r2 \in Reqs :
    /\ req[r1].err.name = "ValidationError" /\ req[r2].err.name = "ValidationError"
    /\ Cardinality(ViolatedFields(req[r1])) = 1
    /\ Cardinality(ViolatedFields(req[r2])) = 3
    /\ users # {}

\* The plaintext passwords the clients send.
PlainPasswords == {b.password : b \in RegisterBodies \cup LoginBodies} \ {""}

\* The texts of user object o, under the fields named in fs.
Texts(o, fs) == {o[f] : f \in fs \cap DOMAIN o}

\* C15: no response of register, login, profile or logout holds a password
\* or a password hash: the user object of a response has the fields id, email
\* and name (and createdAt for profile) and no other, the claims of a token
\* are userId, email and name beside jwt.sign's iat and exp, and no text of a
\* response is a password.
C15_NoPasswordInResponses ==
  \A r \in Reqs : \A x \in req[r].resp :
    /\ \A o \in x.user :
         /\ DOMAIN o = IF req[r].op = "profile"
                         THEN {"id", "email", "name", "createdAt"}
                         ELSE {"id", "email", "name"}
         /\ Texts(o, {"email", "name"}) \cap PlainPasswords = {}
    /\ \A t \in x.token :
         /\ VerifyToken(t, t.iat).ok
         /\ \A p \in VerifyToken(t, t.iat).claims :
              /\ DOMAIN p = {"userId", "email", "name", "iat", "exp"}
              /\ {p.userId, p.email, p.name} \cap PlainPasswords = {}
    /\ ({x.message} \cup x.errors) \cap PlainPasswords = {}

\* A login answered 200 beside a profile answered 200 for the same user,
\* whose stored record holds the hash of the password the login sent.
C15_Witness ==
  \E r1 \in Reqs : \E r2 \in Reqs : \E u \in users :
    /\ req[r1].op = "login" /\ Status(req[r1]) = {200}
    /\ req[r2].op = "profile" /\ Status(req[r2]) = {200}
    /\ u.password = BcryptHash(req[r1].password)
    /\ \A x \in req[r1].resp \cup req[r2].resp : \A o \in x.user : o.id = u.id

\* The request in slot r ends in this step.
Ends(r) == req[r].pc \notin {"idle", "done"} /\ req'[r].pc = "done"

\* The tokens of the response slot r holds after this step.
TokensSent(r) == UNION {x.token : x \in req'[r].resp}

\* Token t carries the id, email and name of record u.
Carries(t, u) ==
  /\ t.userId = ObjectIdToString(u.id)
  /\ t.email = u.email
  /\ t.name = u.name

\* C16: a token is issued only after authentication succeeded in the same
\* request: by register in the step after its save, for the record that step
\* inserted, and by login in the step after comparePassword, for a record
\* with the request's email that findOne found and whose hash matches the
\* request's password; the token carries the id, email and name of that
\* record, which is in the store at issuance; a response that is not the 201
\* or the 200 (a 400 or a 500) carries no token, and no step issues a token
\* without sending it in such a response.
C16_TokenOnlyAfterAuth ==
  [][/\ \A r \in Reqs :
          Ends(r) =>
            /\ TokensSent(r) # {} =>
                 /\ req[r].op \in {"register", "login"}
                 /\ Status(req'[r]) = IF req[r].op = "register" THEN {201} ELSE {200}
                 /\ issued' = issued \cup TokensSent(r)
                 /\ \A t \in TokensSent(r) : \E u \in users' :
                      /\ Carries(t, u)
                      /\ t.iat = now
                      /\ u.email = NormalizeEmail(req[r].email)
                      /\ req[r].op = "register" =>
                           /\ req[r].pc = "save"
                           /\ u \notin users
                           /\ req'[r].created = {u.id}
                      /\ req[r].op = "login" =>
                           /\ req[r].pc = "compare"
                           /\ u \in users /\ u \in req[r].doc
                           /\ u.password = BcryptHash(req[r].password)
            /\ Status(req'[r]) \cap {200, 201} = {} => TokensSent(r) = {}
     /\ issued' # issued =>
          \E r \in Reqs : Ends(r) /\ issued' \ issued \subseteq TokensSent(r)
     /\ \A t \in issued' : \E u \in users' : Carries(t, u) /\ u.createdAt <= t.iat]_vars

\* A register answered 201 and a later login of the same user answered 200,
\* each with its own token.
C16_Witness ==
  \E r1 \in Reqs : \E r2 \in Reqs : \E t1 \in issued : \E t2 \in issued :
    /\ req[r1].op = "register" /\ Status(req[r1]) = {201}
    /\ req[r2].op = "login" /\ Status(req[r2]) = {200}
    /\ \A x \in req[r1].resp : x.token = {t1}
    /\ \A x \in req[r2].resp : x.token = {t2}
    /\ t1 # t2 /\ t1.userId = t2.userId

====
